---- MODULE Spec2Model ----
(***************************************************************************)
(* Model of the shift allocation by maximum flow:                          *)
(*   src/ford_fulkerson.py  FlowNetwork, ResidualNetwork, FordFulkerson    *)
(*   src/allocate.py        allocate                                       *)
(*                                                                         *)
(* Vertices are the integers 0..n-1 (vertex_id = index).  The flow edges   *)
(* of the whole network are kept in one sequence in the order add_edge     *)
(* created them; the edge list of a vertex is the subsequence of the edges *)
(* that start at it.  The residual edges are kept the same way, in the     *)
(* order ResidualNetwork.__init__ appended them.  Edges refer to each      *)
(* other by their position in these sequences.                             *)
(*                                                                         *)
(* ford_fulkerson.py uses deque without importing it; it is taken to be    *)
(* collections.deque (a FIFO queue: append at the right, popleft).         *)
(***************************************************************************)
EXTENDS Integers, Sequences, FiniteSets, TLC

\* ---------------------------------------------------------------- bounds
\* allocate.py line 63 sets days = 30; the model runs the same code on a
\* shorter month.
days == 1
\* largest number of officers (len(preferences))
MaxOfficers == 4
\* vertices, edges and capacities of the networks built by hand (SpecFF)
MaxVertices == 3
MaxEdges == 3
MaxCapacity == 1
\* FordFulkerson's accumulated flow is an unbounded Python int; the loop of
\* the model stops augmenting once it would pass this value.
FlowLimit == 20

\* float('inf'), larger than every residual value of the model
inf == 1000000
\* None as the value of FlowNetwork.source / FlowNetwork.sink
None == -1000000

\* rows of preferences: an officer eligible for one shift, for two shifts,
\* for every shift (with an eligibility above 1)
PrefRows == {<<1, 0, 0>>, <<0, 1, 1>>, <<2, 1, 1>>}
\* rows of officers_per_org (one organization)
DemandRows == {<<0, 0, 0>>, <<1, 0, 0>>, <<1, 1, 1>>, <<1, 1, 2>>}

VARIABLES
    preferences,       \* allocate's argument: officer -> <<s0, s1, s2>>
    officers_per_org,  \* allocate's argument: organization -> <<n0, n1, n2>>
    min_shifts,        \* allocate's argument
    max_shifts,        \* allocate's argument
    flow_graph,        \* the FlowNetwork: [n, edges, source, sink]
    residual_network,  \* the ResidualNetwork: [edges, residual_capacity]
    path,              \* FordFulkerson's local: the last augmenting path
    flow,              \* FordFulkerson's local: the accumulated flow
    ans,               \* allocate's local: cell <<i, j, d, k>> -> 0 or 1
    pc                 \* position in allocate / FordFulkerson

vars == <<preferences, officers_per_org, min_shifts, max_shifts, flow_graph,
          residual_network, path, flow, ans, pc>>

\* ------------------------------------------------------------ arithmetic
Min(a, b) == IF a <= b THEN a ELSE b
Abs(a) == IF a < 0 THEN 0 - a ELSE a

\* Python list indexing: a negative index counts from the end
PyIndex(i, n) == IF i < 0 THEN n + i ELSE i

\* range(start, stop, step) with step > 0, as a sequence
Range(start, stop, step) ==
    IF stop <= start THEN <<>>
    ELSE [x \in 1..((stop - start + step - 1) \div step) |-> start + (x - 1) * step]

RECURSIVE SumSeq(_)
SumSeq(s) == IF s = <<>> THEN 0 ELSE Head(s) + SumSeq(Tail(s))

RECURSIVE Concat(_)
Concat(ss) == IF ss = <<>> THEN <<>> ELSE Head(ss) \o Concat(Tail(ss))

\* ----------------------------------------------------------- FlowNetwork
\* FlowNetwork.__init__
FlowNetwork(n) == [n |-> n, edges |-> <<>>, source |-> None, sink |-> None]

\* FlowEdge.__init__
FlowEdge(start, end, capacity) ==
    [start_vertex |-> start, end_vertex |-> end, capacity |-> capacity,
     flow |-> 0, forward_residual_edge |-> 0, backward_residual_edge |-> 0]

\* FlowNetwork.add_edge
add_edge(g, start, end, capacity) ==
    [g EXCEPT !.edges =
        Append(@, FlowEdge(PyIndex(start, g.n), PyIndex(end, g.n), capacity))]

\* add_edge called for each <<start, end, capacity>> of es, in order
add_edges(g, es) ==
    [g EXCEPT !.edges = @ \o
        [x \in 1..Len(es) |->
            FlowEdge(PyIndex(es[x][1], g.n), PyIndex(es[x][2], g.n), es[x][3])]]

\* FlowNetwork.define_sink_source
define_sink_source(g, source_index, sink_index) ==
    [g EXCEPT !.source = source_index, !.sink = sink_index]

\* the positions in es of the edges that start at v, in insertion order:
\* the edge list graph[v].edges
EdgesOf(es, v) ==
    SelectSeq([x \in 1..Len(es) |-> x], LAMBDA x : es[x].start_vertex = v)

\* ------------------------------------------------------- ResidualNetwork
\* ResidualEdge.__init__: start and end follow the flow edge when forwards,
\* and are swapped when not
ResidualEdge(es, flow_edge, f, forwards) ==
    [flow_edge |-> flow_edge, flow |-> f, forwards |-> forwards,
     start_vertex |-> IF forwards THEN es[flow_edge].start_vertex
                                  ELSE es[flow_edge].end_vertex,
     end_vertex |-> IF forwards THEN es[flow_edge].end_vertex
                                ELSE es[flow_edge].start_vertex]

\* the first residual edge of graph[start].edges that ends at end, 0 if none
\* (the for ... break of ResidualNetwork.__init__)
FindResidual(res, start, end) ==
    LET hits == {r \in 1..Len(res) :
                    res[r].start_vertex = start /\ res[r].end_vertex = end}
    IN IF hits = {} THEN 0 ELSE CHOOSE r \in hits : \A q \in hits : r <= q

\* one iteration of the inner loop of ResidualNetwork.__init__ for the flow
\* edge at position e: st = [edges |-> flow edges, res |-> residual edges]
AddResidual(st, e) ==
    LET fe == st.edges[e]
        forward_edge == ResidualEdge(st.edges, e, fe.capacity, TRUE)
        backward_edge == ResidualEdge(st.edges, e, 0, FALSE)
        start == fe.start_vertex
        end == fe.end_vertex
        f == FindResidual(st.res, start, end)
        res1 == IF f # 0
                THEN [st.res EXCEPT ![f].flow = @ + forward_edge.flow]
                ELSE Append(st.res, forward_edge)
        fidx == IF f # 0 THEN f ELSE Len(res1)
        b == FindResidual(res1, end, start)
        res2 == IF b # 0
                THEN [res1 EXCEPT ![b].flow = @ + backward_edge.flow]
                ELSE Append(res1, backward_edge)
        bidx == IF b # 0 THEN b ELSE Len(res2)
    IN [edges |-> [st.edges EXCEPT ![e].forward_residual_edge = fidx,
                                   ![e].backward_residual_edge = bidx],
        res |-> res2]

RECURSIVE AddResiduals(_, _)
AddResiduals(st, order) ==
    IF order = <<>> THEN st
    ELSE AddResiduals(AddResidual(st, Head(order)), Tail(order))

\* the order in which ResidualNetwork.__init__ meets the flow edges:
\* vertex by vertex, each vertex's edges in insertion order
EdgeOrder(g) == Concat([v \in 1..g.n |-> EdgesOf(g.edges, v - 1)])

\* ResidualNetwork.__init__: the residual edges, and the flow edges with
\* their back-references set
BuildResidual(g) == AddResiduals([edges |-> g.edges, res |-> <<>>], EdgeOrder(g))

\* ResidualNetwork.backtrack: walks previous from end_idx; acc is
\* [path (reversed), residual_capacity]
RECURSIVE BacktrackFrom(_, _, _, _)
BacktrackFrom(res, previous, end_idx, acc) ==
    IF previous[end_idx] = 0 THEN acc
    ELSE LET r == previous[end_idx] IN
         BacktrackFrom(res, previous, res[r].start_vertex,
             [path |-> <<r>> \o acc.path,
              residual_capacity |-> Min(acc.residual_capacity, Abs(res[r].flow))])

backtrack(res, previous, end_idx) ==
    BacktrackFrom(res, previous, end_idx, [path |-> <<>>, residual_capacity |-> inf])

\* the edges of current that the for loop of get_hasAugmentingPath follows
Neighbours(res, current, visited) ==
    SelectSeq(EdgesOf(res, current),
              LAMBDA r : res[r].end_vertex \notin visited /\ res[r].flow # 0)

\* the while loop of ResidualNetwork.get_hasAugmentingPath; previous[v] = 0
\* stands for None; rc is the residual_capacity left by earlier calls
RECURSIVE BfsLoop(_, _, _, _, _, _)
BfsLoop(res, sinkv, queue, visited, previous, rc) ==
    IF queue = <<>> THEN [path |-> <<>>, residual_capacity |-> rc]
    ELSE LET current == Head(queue) IN
         IF current \in visited
         THEN BfsLoop(res, sinkv, Tail(queue), visited, previous, rc)
         ELSE LET vis == visited \cup {current} IN
              IF current = sinkv THEN backtrack(res, previous, current)
              ELSE LET nb == Neighbours(res, current, vis)
                       prev2 == [v \in DOMAIN previous |->
                                   LET hit == {i \in 1..Len(nb) : res[nb[i]].end_vertex = v}
                                   IN IF hit = {} THEN previous[v]
                                      ELSE nb[CHOOSE i \in hit : \A k \in hit : k <= i]]
                       q2 == Tail(queue) \o [i \in 1..Len(nb) |-> res[nb[i]].end_vertex]
                   IN BfsLoop(res, sinkv, q2, vis, prev2, rc)

\* ResidualNetwork.get_hasAugmentingPath: [path, residual_capacity]
get_hasAugmentingPath(g, rn) ==
    BfsLoop(rn.edges, PyIndex(g.sink, g.n), <<PyIndex(g.source, g.n)>>, {},
            [v \in 0..(g.n - 1) |-> 0], rn.residual_capacity)

\* one iteration of the loop of ResidualNetwork.augmentFlow for the residual
\* edge r: st = [edges |-> flow edges, res |-> residual edges]
AugmentEdge(st, r, rc) ==
    LET fe == st.res[r].flow_edge
        forward_edge == st.edges[fe].forward_residual_edge
        backward_edge == st.edges[fe].backward_residual_edge
        res1 == [st.res EXCEPT ![forward_edge].flow = @ - rc]
        res2 == [res1 EXCEPT ![backward_edge].flow = @ + rc]
    IN [edges |-> [st.edges EXCEPT ![fe].flow = @ + rc], res |-> res2]

\* ResidualNetwork.augmentFlow
RECURSIVE augmentFlow(_, _, _)
augmentFlow(st, p, rc) ==
    IF p = <<>> THEN st
    ELSE augmentFlow(AugmentEdge(st, Head(p), rc), Tail(p), rc)

\* -------------------------------------------------------------- allocate
\* sum_of_allocation: the officers all organizations require per day
SumOfAllocation(opo) == SumSeq([c \in 1..Len(opo) |-> SumSeq(opo[c])])

\* the pre-check of allocate (line 72)
PreCheck(prefs, opo, mn) == Len(prefs) * mn - SumOfAllocation(opo) * days <= 0

\* the size of the flow network allocate creates
NumVertices(O, C) == 1 + 1 + O + days * O + 3 * days * C + 1

\* a slip in lines 99-106: s0 is used for every shift
ShiftCapacityFirstOnly(pref, shift) == pref[1]

\* capacity of the edge from an officer's day to an organization's shift
ShiftCapacity(pref, shift) == pref[shift + 1]

\* "Connect Source to Original Source"
SourceEdges(O, total, mn) == <<<<0, 1, total * days - O * mn>>>>

\* "Connect Source to Security Officers"
OfficerEdges(O, mn, mx) ==
    Concat([x \in 1..O |-> <<<<0, x + 1, mn>>, <<1, x + 1, mx - mn>>>>])

\* "Connect Officers to Days"
OfficerDayEdges(O) ==
    Concat([x \in 1..O |-> [j \in 1..days |-> <<x + 1, (x + 1) + j * O, 1>>]])

\* "Connect Days to Company Shift Days": officer i (from 0), the temp-th
\* day vertex j of the officer, the vertices k of that day
DayCompanyEdges(prefs, O, C) ==
    Concat([x \in 1..O |->
        LET i == x - 1
            js == Range(O + 2 + i, (days + 1) * O + 2, O)
        IN Concat([t \in 1..Len(js) |->
            LET temp == t - 1
                day_index == (days + 1) * O + 2 + 3 * temp * C
            IN [y \in 1..(3 * C) |->
                   <<js[t], day_index + (y - 1), ShiftCapacity(prefs[x], (y - 1) % 3)>>]])])

\* "Connect Company Shift Days to Sink"; the sink is given as index -1
CompanySinkEdges(opo, O, C) ==
    Concat([x \in 1..C |->
        LET i == x - 1
            company_day_index == (days + 1) * O + 2
            js == Range(company_day_index + 3 * i,
                        company_day_index + 3 * days * C + 3 * i, 3 * C)
        IN Concat([t \in 1..Len(js) |->
               [y \in 1..3 |-> <<js[t] + (y - 1), -1, opo[x][y]>>]])])

\* allocate, lines 75-122: the flow network of the input
AllocationNetwork(prefs, opo, mn, mx) ==
    LET O == Len(prefs)
        C == Len(opo)
        es == SourceEdges(O, SumOfAllocation(opo), mn) \o OfficerEdges(O, mn, mx)
              \o OfficerDayEdges(O) \o DayCompanyEdges(prefs, O, C)
              \o CompanySinkEdges(opo, O, C)
    IN define_sink_source(add_edges(FlowNetwork(NumVertices(O, C)), es), 0, -1)

\* the cells <<i, j, d, k>> of ans (all counted from 0)
Cells(O, C) == (0..(O - 1)) \X (0..(C - 1)) \X (0..(days - 1)) \X (0..2)

\* allocate, lines 133-150: the cells the decoder sets to 1
DecodedCells(es, O, C) ==
    UNION {UNION {
        LET d == (es[e1].end_vertex - es[e1].start_vertex) \div O - 1
            offset == 1 + 1 + O + days * O
        IN {<<i, (es[e2].end_vertex - 3 * d * C - offset) \div 3, d,
              (es[e2].end_vertex - 3 * d * C - offset) % 3>> :
               e2 \in {e \in 1..Len(es) :
                          es[e].start_vertex = es[e1].end_vertex /\ es[e].flow = 1}}
        : e1 \in {e \in 1..Len(es) : es[e].start_vertex = i + 2 /\ es[e].flow = 1}}
      : i \in 0..(O - 1)}

\* allocate, lines 129-150: ans, zero everywhere but in the decoded cells
Decode(es, O, C) ==
    LET ones == DecodedCells(es, O, C)
    IN [cell \in Cells(O, C) |-> IF cell \in ones THEN 1 ELSE 0]

\* --------------------------------------------------------------- actions
NoResidual == [edges |-> <<>>, residual_capacity |-> inf]

\* allocate is called with an input
Init ==
    /\ \E O \in 1..MaxOfficers : preferences \in [1..O -> PrefRows]
    /\ officers_per_org \in [1..1 -> DemandRows]
    /\ min_shifts \in 0..days
    /\ max_shifts \in 0..days
    /\ flow_graph = FlowNetwork(0)
    /\ residual_network = NoResidual
    /\ path = <<>>
    /\ flow = 0
    /\ ans = <<>>
    /\ pc = "allocate"

\* allocate, lines 72-122: the pre-check passes and the network is built
AllocateBuild ==
    /\ pc = "allocate"
    /\ PreCheck(preferences, officers_per_org, min_shifts)
    /\ flow_graph' = AllocationNetwork(preferences, officers_per_org,
                                       min_shifts, max_shifts)
    /\ pc' = "network"
    /\ UNCHANGED <<preferences, officers_per_org, min_shifts, max_shifts,
                   residual_network, path, flow, ans>>

\* allocate, line 72: the pre-check fails; the function ends without a
\* return statement, which returns None
AllocateSkip ==
    /\ pc = "allocate"
    /\ ~PreCheck(preferences, officers_per_org, min_shifts)
    /\ pc' = "return_None"
    /\ UNCHANGED <<preferences, officers_per_org, min_shifts, max_shifts,
                   flow_graph, residual_network, path, flow, ans>>

\* FordFulkerson, lines 310-311: flow = 0 and the residual network
FordFulkersonStart ==
    /\ pc = "network"
    /\ flow_graph.source # None
    /\ LET built == BuildResidual(flow_graph)
       IN /\ flow_graph' = [flow_graph EXCEPT !.edges = built.edges]
          /\ residual_network' = [edges |-> built.res, residual_capacity |-> inf]
    /\ flow' = 0
    /\ path' = <<>>
    /\ pc' = "while"
    /\ UNCHANGED <<preferences, officers_per_org, min_shifts, max_shifts, ans>>

\* FordFulkerson, line 314 (and 318): the loop test; an empty path ends the
\* loop and the function returns flow
WhilePath ==
    /\ pc = "while"
    /\ LET found == get_hasAugmentingPath(flow_graph, residual_network)
       IN /\ path' = found.path
          /\ residual_network' =
                [residual_network EXCEPT !.residual_capacity = found.residual_capacity]
          /\ pc' = IF found.path = <<>> THEN "returned" ELSE "augment"
    /\ UNCHANGED <<preferences, officers_per_org, min_shifts, max_shifts,
                   flow_graph, flow, ans>>

\* FordFulkerson, lines 315-316: the loop body
AugmentFlow ==
    /\ pc = "augment"
    /\ flow + residual_network.residual_capacity <= FlowLimit
    /\ flow' = flow + residual_network.residual_capacity
    /\ LET st == augmentFlow([edges |-> flow_graph.edges, res |-> residual_network.edges],
                             path, residual_network.residual_capacity)
       IN /\ flow_graph' = [flow_graph EXCEPT !.edges = st.edges]
          /\ residual_network' = [residual_network EXCEPT !.edges = st.res]
    /\ pc' = "while"
    /\ UNCHANGED <<preferences, officers_per_org, min_shifts, max_shifts, path, ans>>

\* allocate, lines 128-151: the flow meets the demand; ans is decoded
ReturnAns ==
    /\ pc = "returned"
    /\ flow = days * SumOfAllocation(officers_per_org)
    /\ ans' = Decode(flow_graph.edges, Len(preferences), Len(officers_per_org))
    /\ pc' = "return_ans"
    /\ UNCHANGED <<preferences, officers_per_org, min_shifts, max_shifts,
                   flow_graph, residual_network, path, flow>>

\* allocate, lines 152-153
ReturnNone ==
    /\ pc = "returned"
    /\ flow # days * SumOfAllocation(officers_per_org)
    /\ pc' = "return_None"
    /\ UNCHANGED <<preferences, officers_per_org, min_shifts, max_shifts,
                   flow_graph, residual_network, path, flow, ans>>

Next ==
    \/ AllocateBuild
    \/ AllocateSkip
    \/ FordFulkersonStart
    \/ WhilePath
    \/ AugmentFlow
    \/ ReturnAns
    \/ ReturnNone

Spec == Init /\ [][Next]_vars

\* ------------------------------------------- networks built edge by edge
\* FlowNetwork(n) is constructed; allocate is not involved
InitFF ==
    /\ preferences = <<>>
    /\ officers_per_org = <<>>
    /\ min_shifts = 0
    /\ max_shifts = 0
    /\ \E n \in 2..MaxVertices : flow_graph = FlowNetwork(n)
    /\ residual_network = NoResidual
    /\ path = <<>>
    /\ flow = 0
    /\ ans = <<>>
    /\ pc = "network"

\* FlowNetwork.add_edge, called by the owner of the network
AddEdge ==
    /\ pc = "network"
    /\ Len(flow_graph.edges) < MaxEdges
    /\ \E start \in 0..(flow_graph.n - 1), end \in 0..(flow_graph.n - 1),
          capacity \in 0..MaxCapacity :
          /\ start # end
          /\ flow_graph' = add_edge(flow_graph, start, end, capacity)
    /\ UNCHANGED <<preferences, officers_per_org, min_shifts, max_shifts,
                   residual_network, path, flow, ans, pc>>

\* FlowNetwork.define_sink_source, called by the owner of the network
DefineSinkSource ==
    /\ pc = "network"
    /\ \E source_index \in 0..(flow_graph.n - 1), sink_index \in 0..(flow_graph.n - 1) :
          /\ source_index # sink_index
          /\ flow_graph' = define_sink_source(flow_graph, source_index, sink_index)
    /\ UNCHANGED <<preferences, officers_per_org, min_shifts, max_shifts,
                   residual_network, path, flow, ans, pc>>

NextFF ==
    \/ AddEdge
    \/ DefineSinkSource
    \/ FordFulkersonStart
    \/ WhilePath
    \/ AugmentFlow

SpecFF == InitFF /\ [][NextFF]_vars

\* ----------------------------------------------------- the properties
\* the input meets the preconditions of allocate
WellFormed == min_shifts <= max_shifts

NumOfficers == Len(preferences)
NumCompanies == Len(officers_per_org)
TotalDemand == days * SumOfAllocation(officers_per_org)

\* FordFulkerson is running or has returned
InFordFulkerson == pc \in {"while", "augment", "returned", "return_ans", "return_None"}
                   /\ flow_graph.source # None

\* what officer i does on day d in the assignment a: 0 for no shift, and
\* 3 * c + s + 1 for shift-type s at organization c
Slot(a, i, d) == a[i * days + d + 1]

\* a is an assignment that meets every demand exactly, gives every officer
\* between min_shifts and max_shifts shifts, and respects eligibility; an
\* officer has one slot a day, so at most one shift a day
ValidAssignment(a) ==
    /\ \A i \in 0..(NumOfficers - 1) :
          LET worked == {d \in 0..(days - 1) : Slot(a, i, d) # 0}
          IN /\ min_shifts <= Cardinality(worked)
             /\ Cardinality(worked) <= max_shifts
             /\ \A d \in worked :
                   preferences[i + 1][((Slot(a, i, d) - 1) % 3) + 1] # 0
    /\ \A c \in 0..(NumCompanies - 1), d \in 0..(days - 1), k \in 0..2 :
          Cardinality({i \in 0..(NumOfficers - 1) : Slot(a, i, d) = 3 * c + k + 1})
              = officers_per_org[c + 1][k + 1]

Feasible ==
    \E a \in [1..(NumOfficers * days) -> 0..(3 * NumCompanies)] : ValidAssignment(a)

\* the officers ans assigns to organization c, day d, shift-type k
Assigned(c, d, k) == {i \in 0..(NumOfficers - 1) : ans[<<i, c, d, k>>] = 1}

\* the shifts ans gives officer i
ShiftsOf(i) == {cell \in DOMAIN ans : cell[1] = i /\ ans[cell] = 1}

\* C1: for well-formed input the flow FordFulkerson returns equals
\* totalDailyDemand * D exactly when a valid assignment exists, and is
\* strictly smaller otherwise; allocate returns an allocation exactly when a
\* valid assignment exists
C1_FeasibilityCertificate ==
    WellFormed =>
        /\ pc = "returned" =>
              /\ (flow = TotalDemand) <=> Feasible
              /\ ~Feasible => flow < TotalDemand
        /\ pc = "return_ans" => Feasible
        /\ pc = "return_None" => ~Feasible

\* C2: in a returned allocation (well-formed input) the number of officers
\* assigned to each (organization, day, shift-type) equals the demand
C2_DemandExact ==
    (pc = "return_ans" /\ WellFormed) =>
        \A c \in 0..(NumCompanies - 1), d \in 0..(days - 1), k \in 0..2 :
            Cardinality(Assigned(c, d, k)) = officers_per_org[c + 1][k + 1]

\* C3: in a returned allocation (well-formed input) every officer has at
\* most one (organization, shift-type) on each day
C3_SingleShiftPerDay ==
    (pc = "return_ans" /\ WellFormed) =>
        \A i \in 0..(NumOfficers - 1), d \in 0..(days - 1) :
            Cardinality({cell \in ShiftsOf(i) : cell[3] = d}) <= 1

\* C4: in a returned allocation (well-formed input) every officer's number
\* of shifts lies in [min_shifts, max_shifts]
C4_BoundsRespected ==
    (pc = "return_ans" /\ WellFormed) =>
        \A i \in 0..(NumOfficers - 1) :
            /\ min_shifts <= Cardinality(ShiftsOf(i))
            /\ Cardinality(ShiftsOf(i)) <= max_shifts

\* C5: in a returned allocation, a cell that is 1 belongs to a shift-type
\* for which the officer's preference is not 0
C5_EligibilityRespected ==
    pc = "return_ans" =>
        \A cell \in DOMAIN ans :
            ans[cell] = 1 => preferences[cell[1] + 1][cell[4] + 1] # 0

\* an allocation is returned that assigns an officer who is ineligible for
\* another shift-type the organization also demands
C5_Witness ==
    /\ pc = "return_ans"
    /\ \E cell \in DOMAIN ans :
          /\ ans[cell] = 1
          /\ \E k \in 0..2 :
                /\ preferences[cell[1] + 1][k + 1] = 0
                /\ officers_per_org[cell[2] + 1][k + 1] > 0

\* C6: when min_shifts > max_shifts, allocate returns no allocation
C6_RejectsMinAboveMax == (min_shifts > max_shifts) => pc # "return_ans"

\* the sum of the capacities of the edges that leave the source
SourceCapacity ==
    LET es == flow_graph.edges
    IN SumSeq([x \in 1..Len(es) |->
                  IF es[x].start_vertex = PyIndex(flow_graph.source, flow_graph.n)
                  THEN es[x].capacity ELSE 0])

\* the network is one FordFulkerson is specified for: no negative capacity
NonNegativeCapacities ==
    \A e \in DOMAIN flow_graph.edges : flow_graph.edges[e].capacity >= 0

\* C7: FordFulkerson's loop ends: every augmentation strictly increases the
\* accumulated flow, and the accumulated flow never exceeds the sum of the
\* capacities of the edges that leave the source
C7_FlowBoundedBySource ==
    (InFordFulkerson /\ NonNegativeCapacities) =>
        /\ flow <= SourceCapacity
        /\ pc = "augment" => residual_network.residual_capacity > 0

\* C8: during and after FordFulkerson every flow edge of a network with
\* non-negative capacities has 0 <= flow <= capacity
C8_CapacityInvariant ==
    (InFordFulkerson /\ NonNegativeCapacities) =>
        \A e \in DOMAIN flow_graph.edges :
            /\ 0 <= flow_graph.edges[e].flow
            /\ flow_graph.edges[e].flow <= flow_graph.edges[e].capacity

InFlow(v) ==
    SumSeq([x \in 1..Len(flow_graph.edges) |->
               IF flow_graph.edges[x].end_vertex = v THEN flow_graph.edges[x].flow ELSE 0])

OutFlow(v) ==
    SumSeq([x \in 1..Len(flow_graph.edges) |->
               IF flow_graph.edges[x].start_vertex = v THEN flow_graph.edges[x].flow ELSE 0])

\* C9: when FordFulkerson returns (network with non-negative capacities), at
\* every vertex other than the source and the sink the incoming flow equals
\* the outgoing flow
C9_Conservation ==
    (pc = "returned" /\ NonNegativeCapacities) =>
        \A v \in 0..(flow_graph.n - 1) :
            (v # PyIndex(flow_graph.source, flow_graph.n)
                /\ v # PyIndex(flow_graph.sink, flow_graph.n))
            => InFlow(v) = OutFlow(v)

\* the residual edge paired with residual edge r: the opposite-direction
\* residual edge of the same flow edge
Paired(r) ==
    LET re == residual_network.edges[r]
    IN IF re.forwards THEN flow_graph.edges[re.flow_edge].backward_residual_edge
       ELSE flow_graph.edges[re.flow_edge].forward_residual_edge

OnPath(r) == \E x \in 1..Len(path) : path[x] = r

\* one augmentFlow step as the augment contract describes it: the residual
\* value of every residual edge on the path falls by the bottleneck, that of
\* its paired edge rises by it, every other residual edge keeps its value
AugmentStep ==
    (pc = "augment" /\ pc' = "while" /\ NonNegativeCapacities) =>
        LET rc == residual_network.residual_capacity
            old == residual_network.edges
            new == residual_network'.edges
        IN \A r \in DOMAIN old :
              IF OnPath(r) THEN new[r].flow = old[r].flow - rc
              ELSE IF \E q \in DOMAIN old : OnPath(q) /\ Paired(q) = r
                   THEN new[r].flow = old[r].flow + rc
                   ELSE new[r].flow = old[r].flow

\* C10: on a network with non-negative capacities, every augmentFlow(path)
\* step decreases the residual value of each residual edge on the path,
\* forward or backward, by the bottleneck, increases the residual value of
\* its paired opposite-direction edge by the same amount, and leaves the
\* other residual edges unchanged
C10_AugmentStep == [][AugmentStep]_vars

====
